---- MODULE Spec2Model ----
(***************************************************************************)
(* Model of the StatefulSet resize controller: one workload (StatefulSet)  *)
(* in one namespace, its per-replica volumes (PVCs), the backup volumes    *)
(* and the copy-jobs the controller creates, the external StatefulSet      *)
(* controller that writes the workload's status, and the job controller    *)
(* that completes or fails copy-jobs.                                      *)
(*                                                                         *)
(* A reconcile is one action: it reads the cluster, runs the handler's     *)
(* code and issues its cluster-API mutations in program order.  A fault    *)
(* may hit the k-th mutation of a reconcile: either the engine stops there *)
(* (crash) or the call returns an error and the handler's error path runs. *)
(***************************************************************************)
EXTENDS Integers, Sequences, FiniteSets

\* ---------------------------------------------------------------- bounds
MaxReplicas == 1      \* largest desired replica count of the workload
MaxFaults == 1        \* number of injected faults in one behaviour
SmallSize == 2        \* requested storage of a volume that must grow

TemplateSize == SmallSize + 1   \* requested storage of the volume template
TinySize == SmallSize - 1       \* a foreign object that is too small
Vols == {1, 2}                  \* the workload's volumes data-1 and data-2
NVols == Cardinality(Vols)
Dirs == {"backup", "restore"}
MaxCalls == 2 * NVols + 1       \* most mutations one reconcile can issue

\* ------------------------------------------------- strconv.Itoa / Atoi
Digits == <<"0", "1", "2", "3", "4", "5", "6", "7", "8", "9">>

RECURSIVE Itoa(_)
Itoa(n) ==
    IF n < 0 THEN <<"-">> \o Itoa(0 - n)
    ELSE IF n < 10 THEN <<Digits[n + 1]>>
    ELSE Itoa(n \div 10) \o <<Digits[(n % 10) + 1]>>

DigitVal(c) == (CHOOSE i \in 1..10 : Digits[i] = c) - 1
IsDigit(c) == \E i \in 1..10 : Digits[i] = c

RECURSIVE ParseDigits(_, _)
ParseDigits(s, acc) ==
    IF s = <<>> THEN acc
    ELSE ParseDigits(Tail(s), acc * 10 + DigitVal(Head(s)))

\* the text is an optional sign followed by one or more digits
IsQuantity(s) ==
    LET signed == s # <<>> /\ Head(s) \in {"+", "-"}
        body == IF signed THEN Tail(s) ELSE s
    IN body # <<>> /\ \A i \in 1..Len(body) : IsDigit(body[i])

\* Atoi(s) = [ok, val]; ok is FALSE where strconv.Atoi returns an error
Atoi(s) ==
    LET signed == s # <<>> /\ Head(s) \in {"+", "-"}
        body == IF signed THEN Tail(s) ELSE s
        ok == IsQuantity(s)
        mag == IF ok THEN ParseDigits(body, 0) ELSE 0
    IN [ok |-> ok,
        val |-> IF signed /\ Head(s) = "-" THEN 0 - mag ELSE mag]

\* --------------------------------------------------------------- state
\* The value of F at e, with e evaluated once: how a result is bound to
\* a local variable before the following statements use it.
With(e, F(_)) == CHOOSE r \in {F(x) : x \in {e}} : TRUE

VARIABLES
    sts,        \* the workload object as stored in the cluster API
    pvcs,       \* pvcs[name]: the volume objects, by name
    jobs,       \* jobs[name]: the copy-job objects, by name
    calls,      \* the mutations issued by the most recent reconcile
    events,     \* the events recorded by the most recent reconcile
    faults,     \* number of faults injected so far
    orig,       \* ghost: the workload's desired replicas at the start
    quiesced,   \* ghost: a reconcile has observed the workload scaled down
    completed   \* ghost: the copy-jobs that have reported complete

vars == <<sts, pvcs, jobs, calls, events, faults, orig, quiesced, completed>>

NoPVC == [size |-> 0, terminating |-> FALSE]
PVC(n) == [size |-> n, terminating |-> FALSE]
Exists(p) == p.size > 0

NoPlan == [present |-> FALSE, items |-> <<>>]


\* --------------------------------------------- pvc.Entity (descriptor)
\* NewEntity: the descriptor of volume v, observed at size n, grown to t
NewEntity(v, n, t) ==
    [SourceName |-> v, SpecSize |-> n, TargetSize |-> t,
     BackedUp |-> FALSE, Restored |-> FALSE]

\* BackupName: a function of (SourceName, Spec.requests.storage)
BackupName(pi) == pi.SourceName \o <<"backup">> \o Itoa(pi.SpecSize)

\* GetBackup: the desired backup volume, still at the source's size
GetBackup(pi) == PVC(pi.SpecSize)

\* GetResizedSource: the desired recreated original, at the target size
GetResizedSource(pi) == PVC(pi.TargetSize)

\* newJobName: a function of (src, dst)
newJobName(src, dst) == <<"sync">> \o src \o <<"to">> \o dst

\* the names of the objects of volume v
SrcName(v) == <<"data", v>>
BkName(v) == BackupName(NewEntity(SrcName(v), SmallSize, TemplateSize))
BackupJob(v) == newJobName(SrcName(v), BkName(v))
RestoreJob(v) == newJobName(BkName(v), SrcName(v))
PVCNames == {SrcName(v) : v \in Vols} \cup {BkName(v) : v \in Vols}
JobNames == {BackupJob(v) : v \in Vols} \cup {RestoreJob(v) : v \in Vols}

\* a value that is not a number
NotANumber == <<"N", "a", "N">>

\* ------------------------------------------ json.Marshal / Unmarshal
MarshalEntity(pi) ==
    [SourceName |-> pi.SourceName,
     Spec |-> Itoa(pi.SpecSize),
     TargetSize |-> Itoa(pi.TargetSize),
     BackedUp |-> pi.BackedUp,
     Restored |-> pi.Restored]

UnmarshalEntity(j) ==
    [SourceName |-> j.SourceName,
     SpecSize |-> Atoi(j.Spec).val,
     TargetSize |-> Atoi(j.TargetSize).val,
     BackedUp |-> j.BackedUp,
     Restored |-> j.Restored]

Marshal(pis) ==
    [present |-> TRUE, items |-> [i \in 1..Len(pis) |-> MarshalEntity(pis[i])]]

Unmarshal(a) == [i \in 1..Len(a.items) |-> UnmarshalEntity(a.items[i])]

\* json.Unmarshal returns an error: some quantity of the list is not one
Readable(a) ==
    \A i \in 1..Len(a.items) :
        IsQuantity(a.items[i].Spec) /\ IsQuantity(a.items[i].TargetSize)

\* ------------------------------------------------------------- errors
Nil == [kind |-> "nil", event |-> <<>>, save |-> FALSE]
Plain == [kind |-> "plain", event |-> <<>>, save |-> FALSE]

\* CriticalError{Err, Event, SaveToScaleUp}
CriticalError(event, save) == [kind |-> "critical", event |-> event, save |-> save]

\* faulty variant: every error counts as Critical
isCriticalAny(err) == err.kind # "nil"

isCritical(err) == err.kind = "critical"

\* ------------------------------------- statefulset.Entity (workload)
\* NewEntity of the statefulset package: clone the observed workload and
\* decode the pending list from annotation pvcs when it is present.
NewInfo(old) ==
    LET a == old.annotations.pvcs IN
    IF ~a.present
    THEN [Old |-> old, sts |-> old, Pvcs |-> <<>>, err |-> Nil]
    ELSE IF Readable(a)
    THEN [Old |-> old, sts |-> old, Pvcs |-> Unmarshal(a), err |-> Nil]
    ELSE [Old |-> old, sts |-> old, Pvcs |-> <<>>, err |-> Plain]

\* StatefulSet(): encode the pending list into annotation pvcs
Sts(si) ==
    [si EXCEPT !.sts.annotations.pvcs = Marshal(si.Pvcs)]

\* faulty variant: the label is not looked at
FailedIgnored(si) == FALSE

Failed(si) == si.sts.labels.failed = "true"

SetFailed(si) == [si EXCEPT !.sts.labels.failed = "true"]

Resizing(si) == Len(si.Pvcs) # 0

\* faulty variant: no replicas wanted and none observed is enough
isScaledDownNoMarker(s) == s.replicas = 0 /\ s.statusReplicas = 0

\* faulty variant: does not wait for the status to show zero replicas
isScaledDownSpecOnly(s) == s.replicas = 0

isScaledDown(s) ==
    /\ s.replicas = 0
    /\ s.currentRevision # ""
    /\ s.statusReplicas = 0

isScaledUp(s, scale) ==
    /\ s.replicas = scale
    /\ s.currentRevision # ""
    /\ s.statusReplicas = scale

isScalingUp(s) == s.annotations.scalup = "true"

\* faulty variant: overwrites a count that was captured before
saveOriginalReplicaCountAlways(s) ==
    [s EXCEPT !.annotations.replicas = Itoa(s.replicas)]

saveOriginalReplicaCount(s) ==
    IF s.annotations.replicas = <<>>
    THEN [s EXCEPT !.annotations.replicas = Itoa(s.replicas)]
    ELSE s

getOriginalReplicaCount(s) == Atoi(s.annotations.replicas)

clearOriginalReplicaCount(s) == [s EXCEPT !.annotations.replicas = <<>>]

markScalingUp(s) == [s EXCEPT !.annotations.scalup = "true"]

unmarkScalingUp(s) == [s EXCEPT !.annotations.scalup = ""]

\* faulty variant: scales down a workload that is marked as scaling up
PrepareScaleDownNoSkip(s) ==
    IF isScaledDown(s)
    THEN [sts |-> s, done |-> TRUE]
    ELSE [sts |-> [saveOriginalReplicaCount(s) EXCEPT !.replicas = 0],
          done |-> FALSE]

\* PrepareScaleDown: [sts, done]
PrepareScaleDown(s) ==
    IF isScaledDown(s) \/ isScalingUp(s)
    THEN [sts |-> s, done |-> TRUE]
    ELSE [sts |-> [saveOriginalReplicaCount(s) EXCEPT !.replicas = 0],
          done |-> FALSE]

\* faulty variant: marks the workload but leaves the replicas at 0
PrepareScaleUpMarkOnly(s) ==
    With(getOriginalReplicaCount(s), LAMBDA r :
    IF ~r.ok THEN [sts |-> s, done |-> FALSE, err |-> TRUE]
    ELSE IF isScaledUp(s, r.val)
    THEN [sts |-> clearOriginalReplicaCount(unmarkScalingUp(s)),
          done |-> TRUE, err |-> FALSE]
    ELSE [sts |-> markScalingUp(s), done |-> FALSE, err |-> FALSE])

\* PrepareScaleUp: [sts, done, err]
PrepareScaleUp(s) ==
    With(getOriginalReplicaCount(s), LAMBDA r :
    IF ~r.ok THEN [sts |-> s, done |-> FALSE, err |-> TRUE]
    ELSE IF isScaledUp(s, r.val)
    THEN [sts |-> clearOriginalReplicaCount(unmarkScalingUp(s)),
          done |-> TRUE, err |-> FALSE]
    ELSE [sts |-> [markScalingUp(s) EXCEPT !.replicas = r.val],
          done |-> FALSE, err |-> FALSE])

\* ------------------------------------------------ cluster-API client
\* The world a reconcile runs in: the cluster objects, the mutations and
\* events issued so far, and the fault that is still to strike
\* (budget = number of mutations that succeed before it; -1 = none).
World(k, kind) ==
    [sts |-> sts, pvcs |-> pvcs, jobs |-> jobs,
     calls |-> <<>>, events |-> {},
     alive |-> TRUE, lastErr |-> FALSE,
     budget |-> k, kind |-> kind, faulted |-> FALSE]

Call(op, name, m) == [op |-> op, name |-> name, before |-> m.pvcs, sts |-> m.sts]

\* One mutating call: m2 is the world after the call succeeded.
ApiMutate(m, c, m2) ==
    IF ~m.alive THEN m
    ELSE IF m.budget = 0
    THEN IF m.kind = "crash"
         THEN [m EXCEPT !.alive = FALSE, !.budget = -1, !.faulted = TRUE]
         ELSE [m EXCEPT !.lastErr = TRUE, !.budget = -1, !.faulted = TRUE]
    ELSE [m2 EXCEPT !.calls = Append(m.calls, c),
                    !.lastErr = FALSE,
                    !.budget = IF m.budget > 0 THEN m.budget - 1 ELSE -1]

Ok(m) == [m EXCEPT !.lastErr = FALSE]

Create(m, name, obj) ==
    ApiMutate(m, Call("create", name, m), [m EXCEPT !.pvcs[name] = obj])

\* Delete of a volume marks it terminating; the object stays visible
\* until its finalizer is removed.
Delete(m, name) ==
    ApiMutate(m, Call("delete", name, m), [m EXCEPT !.pvcs[name].terminating = TRUE])

CreateJob(m, name) ==
    ApiMutate(m, Call("createJob", name, m), [m EXCEPT !.jobs[name] = "running"])

DeleteJob(m, name) ==
    ApiMutate(m, Call("deleteJob", name, m), [m EXCEPT !.jobs[name] = "absent"])

\* Update of the workload: metadata and spec are replaced, status is kept.
Update(m, s) ==
    ApiMutate(m, Call("update", <<"sts">>, m),
              [m EXCEPT !.sts = [s EXCEPT !.statusReplicas = m.sts.statusReplicas,
                                          !.currentRevision = m.sts.currentRevision]])

Event(m, type, reason, msg) ==
    IF m.alive
    THEN [m EXCEPT !.events = @ \cup {[type |-> type, reason |-> reason, msg |-> msg]}]
    ELSE m

\* ------------------------------------------------------------ copy.go
\* faulty variant: a failed job is flagged safe to scale up
isJobDoneSaveToScaleUp(j) ==
    IF j = "complete" THEN [done |-> TRUE, err |-> Nil]
    ELSE IF j = "failed" THEN [done |-> TRUE, err |-> CriticalError(<<>>, TRUE)]
    ELSE [done |-> FALSE, err |-> Nil]

\* isJobDone: [done, err] from the job's conditions
isJobDone(j) ==
    IF j = "complete" THEN [done |-> TRUE, err |-> Nil]
    ELSE IF j = "failed" THEN [done |-> TRUE, err |-> CriticalError(<<>>, FALSE)]
    ELSE [done |-> FALSE, err |-> Nil]

\* faulty variant: creates the job without looking for it first
getOrCreateJobBlind(m, jn) ==
    [m |-> CreateJob(m, jn), job |-> "running"]

\* getOrCreateJob: [m, job]
getOrCreateJob(m, jn) ==
    IF m.jobs[jn] = "absent"
    THEN [m |-> CreateJob(m, jn), job |-> "running"]
    ELSE [m |-> Ok(m), job |-> m.jobs[jn]]

\* faulty variant: leaves the finished job in place
copyPVCKeepJob(m, src, dst) ==
    With(getOrCreateJob(m, newJobName(src, dst)), LAMBDA g :
    IF g.m.lastErr THEN [m |-> g.m, done |-> FALSE, err |-> Plain]
    ELSE LET d == isJobDone(g.job) IN
         IF d.err.kind # "nil" THEN [m |-> g.m, done |-> d.done, err |-> d.err]
         ELSE IF d.done
         THEN [m |-> g.m, done |-> TRUE, err |-> Nil]
         ELSE [m |-> g.m, done |-> FALSE, err |-> Nil])

\* copyPVC: [m, done, err]  (no SyncClusterRole configured)
copyPVC(m, src, dst) ==
    With(getOrCreateJob(m, newJobName(src, dst)), LAMBDA g :
    IF g.m.lastErr THEN [m |-> g.m, done |-> FALSE, err |-> Plain]
    ELSE LET d == isJobDone(g.job) IN
         IF d.err.kind # "nil" THEN [m |-> g.m, done |-> d.done, err |-> d.err]
         ELSE IF d.done
         THEN [m |-> DeleteJob(g.m, newJobName(src, dst)), done |-> TRUE, err |-> Nil]
         ELSE [m |-> g.m, done |-> FALSE, err |-> Nil])

\* ---------------------------------------------------------- backup.go
\* createBackupIfNotExists: the world after; lastErr is the returned error
createBackupIfNotExists(m, pi) ==
    LET found == m.pvcs[BackupName(pi)] IN
    IF ~Exists(found) THEN Create(m, BackupName(pi), GetBackup(pi))
    ELSE IF found.size # GetBackup(pi).size THEN [m EXCEPT !.lastErr = TRUE]
    ELSE Ok(m)

\* backupPVC: [m, pi, done, err]; the error of createBackupIfNotExists is
\* overwritten by the result of copyPVC before it is looked at
backupPVC(m, pi) ==
    IF pi.BackedUp THEN [m |-> m, pi |-> pi, done |-> TRUE, err |-> Nil]
    ELSE With(createBackupIfNotExists(m, pi), LAMBDA m1 :
         With(copyPVC(m1, pi.SourceName, BackupName(pi)), LAMBDA c :
         [m |-> c.m,
          pi |-> IF c.err.kind = "nil" /\ c.done
                 THEN [pi EXCEPT !.BackedUp = TRUE] ELSE pi,
          done |-> c.done, err |-> c.err]))

\* --------------------------------------------------------- restore.go
\* faulty variant: reports "not done" after creating the original
resizeSourceCreateNotDone(m, pi) ==
    LET found == m.pvcs[pi.SourceName] IN
    IF ~Exists(found)
    THEN With(Create(m, pi.SourceName, GetResizedSource(pi)), LAMBDA m1 :
         [m |-> m1, done |-> FALSE, err |-> IF m1.lastErr THEN Plain ELSE Nil])
    ELSE IF found.size < pi.TargetSize
    THEN With(Delete(m, pi.SourceName), LAMBDA m1 :
         [m |-> m1, done |-> FALSE, err |-> IF m1.lastErr THEN Plain ELSE Nil])
    ELSE [m |-> m, done |-> TRUE, err |-> Nil]

\* faulty variant: creates the replacement right after the delete
resizeSourceRecreate(m, pi) ==
    LET found == m.pvcs[pi.SourceName] IN
    IF ~Exists(found)
    THEN With(Create(m, pi.SourceName, GetResizedSource(pi)), LAMBDA m1 :
         [m |-> m1, done |-> TRUE, err |-> IF m1.lastErr THEN Plain ELSE Nil])
    ELSE IF found.size < pi.TargetSize
    THEN With(Delete(m, pi.SourceName), LAMBDA m1 :
         With(Create(m1, pi.SourceName, GetResizedSource(pi)), LAMBDA m2 :
         [m |-> m2, done |-> TRUE, err |-> IF m2.lastErr THEN Plain ELSE Nil]))
    ELSE [m |-> m, done |-> TRUE, err |-> Nil]

\* resizeSource: [m, done, err]
resizeSource(m, pi) ==
    LET found == m.pvcs[pi.SourceName] IN
    IF ~Exists(found)
    THEN With(Create(m, pi.SourceName, GetResizedSource(pi)), LAMBDA m1 :
         [m |-> m1, done |-> TRUE, err |-> IF m1.lastErr THEN Plain ELSE Nil])
    ELSE IF found.size < pi.TargetSize
    THEN With(Delete(m, pi.SourceName), LAMBDA m1 :
         [m |-> m1, done |-> FALSE, err |-> IF m1.lastErr THEN Plain ELSE Nil])
    ELSE [m |-> m, done |-> TRUE, err |-> Nil]

\* faulty variant: does not wait for the restore copy-job to finish
restorePVCNoWait(m, pi) ==
    IF pi.Restored THEN [m |-> m, pi |-> pi, done |-> TRUE, err |-> Nil]
    ELSE With(resizeSource(m, pi), LAMBDA r :
         IF r.err.kind # "nil" \/ ~r.done
         THEN [m |-> r.m, pi |-> pi, done |-> r.done, err |-> r.err]
         ELSE With(copyPVC(r.m, BackupName(pi), pi.SourceName), LAMBDA c :
              IF c.err.kind # "nil"
              THEN [m |-> c.m, pi |-> pi, done |-> c.done, err |-> c.err]
              ELSE [m |-> c.m, pi |-> [pi EXCEPT !.Restored = TRUE],
                    done |-> TRUE, err |-> Nil]))

\* faulty variant: a restore that is not done clears the backup flag
restorePVCForget(m, pi) ==
    IF pi.Restored THEN [m |-> m, pi |-> pi, done |-> TRUE, err |-> Nil]
    ELSE With(resizeSource(m, pi), LAMBDA r :
         IF r.err.kind # "nil" \/ ~r.done
         THEN [m |-> r.m, pi |-> pi, done |-> r.done, err |-> r.err]
         ELSE With(copyPVC(r.m, BackupName(pi), pi.SourceName), LAMBDA c :
              IF c.err.kind # "nil" \/ ~c.done
              THEN [m |-> c.m, pi |-> [pi EXCEPT !.BackedUp = FALSE],
                    done |-> c.done, err |-> c.err]
              ELSE [m |-> c.m, pi |-> [pi EXCEPT !.Restored = TRUE],
                    done |-> TRUE, err |-> Nil]))

\* restorePVC: [m, pi, done, err]
restorePVC(m, pi) ==
    IF pi.Restored THEN [m |-> m, pi |-> pi, done |-> TRUE, err |-> Nil]
    ELSE With(resizeSource(m, pi), LAMBDA r :
         IF r.err.kind # "nil" \/ ~r.done
         THEN [m |-> r.m, pi |-> pi, done |-> r.done, err |-> r.err]
         ELSE With(copyPVC(r.m, BackupName(pi), pi.SourceName), LAMBDA c :
              IF c.err.kind # "nil" \/ ~c.done
              THEN [m |-> c.m, pi |-> pi, done |-> c.done, err |-> c.err]
              ELSE [m |-> c.m, pi |-> [pi EXCEPT !.Restored = TRUE],
                    done |-> TRUE, err |-> Nil]))

\* ------------------------------------------------------------- pvc.go
isGreaterStorageRequest(p, tplSize) == p.size < tplSize

\* filterResizablePVCs over the listed volumes v..NVols of the workload
RECURSIVE filterResizablePVCs(_, _)
filterResizablePVCs(m, v) ==
    IF v > NVols THEN <<>>
    ELSE (IF Exists(m.pvcs[SrcName(v)])
             /\ isGreaterStorageRequest(m.pvcs[SrcName(v)], TemplateSize)
          THEN <<NewEntity(SrcName(v), m.pvcs[SrcName(v)].size, TemplateSize)>>
          ELSE <<>>) \o filterResizablePVCs(m, v + 1)

fetchResizablePVCs(m) == filterResizablePVCs(m, 1)

\* faulty variant: goes on to the restore although the backup is not done
resizePVCNoWait(m, pi) ==
    With(backupPVC(m, pi), LAMBDA b :
    IF b.err.kind # "nil"
    THEN [b EXCEPT !.err = IF isCritical(b.err)
                           THEN CriticalError(<<"Failed to backup PVC">> \o b.pi.SourceName, TRUE)
                           ELSE b.err]
    ELSE restorePVC(b.m, b.pi))

\* faulty variant: hands the backup's error on as it is
resizePVCNoWrap(m, pi) ==
    With(backupPVC(m, pi), LAMBDA b :
    IF b.err.kind # "nil" \/ ~b.done THEN b
    ELSE restorePVC(b.m, b.pi))

\* resizePVC: [m, pi, done, err]
resizePVC(m, pi) ==
    With(backupPVC(m, pi), LAMBDA b :
    IF b.err.kind # "nil" \/ ~b.done
    THEN [b EXCEPT !.err = IF isCritical(b.err)
                           THEN CriticalError(<<"Failed to backup PVC">> \o b.pi.SourceName, TRUE)
                           ELSE b.err]
    ELSE restorePVC(b.m, b.pi))

\* resizePVCs: [m, pis, err]; the loop from index i with pis collected
RECURSIVE resizePVCsLoop(_, _, _, _)
resizePVCsLoop(m, oldPIs, i, pis) ==
    IF i > Len(oldPIs) THEN [m |-> m, pis |-> pis, err |-> Nil]
    ELSE With(resizePVC(m, oldPIs[i]), LAMBDA r :
         IF r.err.kind # "nil"
         THEN [m |-> r.m, pis |-> pis \o SubSeq(oldPIs, i, Len(oldPIs)), err |-> r.err]
         ELSE With(IF r.done THEN pis ELSE Append(pis, r.pi), LAMBDA pis1 :
              resizePVCsLoop(r.m, oldPIs, i + 1, pis1)))

resizePVCs(m, oldPIs) == resizePVCsLoop(m, oldPIs, 1, <<>>)

\* ----------------------------------------------------- statefulset.go
\* fetchStatefulSet: the workload descriptor with its pending list
fetchStatefulSet(m) ==
    With(NewInfo(m.sts), LAMBDA si :
    IF si.err.kind # "nil" THEN si
    ELSE IF ~Resizing(si) THEN [si EXCEPT !.Pvcs = fetchResizablePVCs(m)] ELSE si)

\* faulty variant: writes the workload whether it was changed or not
updateStatefulSetAlways(m, si, resizeErr) ==
    LET c == isCritical(resizeErr) IN
    With(Sts(si), LAMBDA s1 :
    With(IF c THEN SetFailed(s1) ELSE s1, LAMBDA s2 :
    With(IF c /\ resizeErr.save
         THEN [s2 EXCEPT !.sts = PrepareScaleUp(s2.sts).sts]
         ELSE s2, LAMBDA s3 :
    With(IF c THEN Event(m, "Warning", "ResizeFailed", resizeErr.event) ELSE m, LAMBDA m1 :
    IF TRUE
    THEN With(Update(m1, s3.sts), LAMBDA m2 :
         [m |-> m2, err |-> IF m2.lastErr THEN Plain ELSE Nil])
    ELSE [m |-> m1, err |-> Nil]))))

\* updateStatefulSet: [m, err]
updateStatefulSet(m, si, resizeErr) ==
    LET c == isCritical(resizeErr) IN
    With(Sts(si), LAMBDA s1 :
    With(IF c THEN SetFailed(s1) ELSE s1, LAMBDA s2 :
    With(IF c /\ resizeErr.save
         THEN [s2 EXCEPT !.sts = PrepareScaleUp(s2.sts).sts]
         ELSE s2, LAMBDA s3 :
    With(IF c THEN Event(m, "Warning", "ResizeFailed", resizeErr.event) ELSE m, LAMBDA m1 :
    IF \/ s3.sts.annotations # si.Old.annotations
       \/ s3.sts.replicas # si.Old.replicas
       \/ s3.sts.labels # si.Old.labels
    THEN With(Update(m1, s3.sts), LAMBDA m2 :
         [m |-> m2, err |-> IF m2.lastErr THEN Plain ELSE Nil])
    ELSE [m |-> m1, err |-> Nil]))))

\* faulty variant: scales up although descriptors are still pending
resizeStatefulSetEarlyUp(m, si) ==
    With(PrepareScaleDown(si.sts), LAMBDA d :
    With([si EXCEPT !.sts = d.sts], LAMBDA si1 :
    IF ~d.done
    THEN With(updateStatefulSet(m, si1, Nil), LAMBDA u :
         [m |-> u.m, done |-> FALSE, err |-> u.err])
    ELSE With(resizePVCs(m, si1.Pvcs), LAMBDA r :
         With([si1 EXCEPT !.Pvcs = r.pis], LAMBDA si2 :
         IF r.err.kind # "nil"
         THEN With(updateStatefulSet(r.m, si2, r.err), LAMBDA u :
              [m |-> u.m, done |-> Len(r.pis) = 0, err |-> u.err])
         ELSE With(PrepareScaleUp(si2.sts), LAMBDA p :
              With([si2 EXCEPT !.sts = p.sts], LAMBDA si3 :
              With(updateStatefulSet(r.m, si3, IF p.err THEN Plain ELSE Nil), LAMBDA u :
              [m |-> u.m, done |-> p.done, err |-> u.err])))))))

\* resizeStatefulSet: [m, done, err]
resizeStatefulSet(m, si) ==
    With(PrepareScaleDown(si.sts), LAMBDA d :
    With([si EXCEPT !.sts = d.sts], LAMBDA si1 :
    IF ~d.done
    THEN With(updateStatefulSet(m, si1, Nil), LAMBDA u :
         [m |-> u.m, done |-> FALSE, err |-> u.err])
    ELSE With(resizePVCs(m, si1.Pvcs), LAMBDA r :
         With([si1 EXCEPT !.Pvcs = r.pis], LAMBDA si2 :
         IF r.err.kind # "nil" \/ Len(r.pis) > 0
         THEN With(updateStatefulSet(r.m, si2, r.err), LAMBDA u :
              [m |-> u.m, done |-> Len(r.pis) = 0, err |-> u.err])
         ELSE With(PrepareScaleUp(si2.sts), LAMBDA p :
              With([si2 EXCEPT !.sts = p.sts], LAMBDA si3 :
              With(updateStatefulSet(r.m, si3, IF p.err THEN Plain ELSE Nil), LAMBDA u :
              [m |-> u.m, done |-> p.done, err |-> u.err])))))))

\* ------------------------------------------------------ controller.go
\* faulty variant: goes on although the pending list is empty
ReconcileBodyNoSkip(m) ==
    With(fetchStatefulSet(m), LAMBDA si :
    IF si.err.kind # "nil" THEN m
    ELSE IF Failed(si) THEN m
    ELSE With(resizeStatefulSet(m, si), LAMBDA r :
         IF r.err.kind = "nil" /\ r.done
         THEN Event(r.m, "Normal", "ResizeComplete", <<"Successfully resized StatefulSet">>)
         ELSE r.m))

\* Reconcile: fetch; nothing pending => return; failed => return;
\* resize; on completion record the normal event
ReconcileBody(m) ==
    With(fetchStatefulSet(m), LAMBDA si :
    IF si.err.kind # "nil" THEN m
    ELSE IF ~Resizing(si) THEN m
    ELSE IF Failed(si) THEN m
    ELSE With(resizeStatefulSet(m, si), LAMBDA r :
         IF r.err.kind = "nil" /\ r.done
         THEN Event(r.m, "Normal", "ResizeComplete", <<"Successfully resized StatefulSet">>)
         ELSE r.m))

\* ------------------------------------------------------------ actions
FaultKinds == {"crash", "error"}

InitSts(n, synced, failed) ==
    [replicas |-> n,
     statusReplicas |-> IF synced THEN n ELSE 0,
     currentRevision |-> IF synced THEN "rev" ELSE "",
     annotations |-> [replicas |-> <<>>, scalup |-> "", pvcs |-> NoPlan],
     labels |-> [failed |-> IF failed THEN "true" ELSE ""]]

Init ==
    /\ \E n \in 0..MaxReplicas, synced \in BOOLEAN, failed \in BOOLEAN :
          sts = InitSts(n, synced, failed)
    /\ orig = sts.replicas
    /\ quiesced = FALSE
    /\ completed = {}
    /\ \E big \in {{}, {NVols}, Vols}, foreign \in {{}, {1}} :
          pvcs = [n \in PVCNames |->
                    IF \E v \in Vols : n = SrcName(v) /\ v \in big THEN PVC(TemplateSize)
                    ELSE IF \E v \in Vols : n = SrcName(v) THEN PVC(SmallSize)
                    ELSE IF \E v \in foreign : n = BkName(v) THEN PVC(TinySize)
                    ELSE NoPVC]
    /\ jobs = [n \in JobNames |-> "absent"]
    /\ calls = <<>>
    /\ events = {}
    /\ faults = 0

\* the workload as a reconcile reads it is stopped: no replicas wanted,
\* none running, and the status is one its controller has written
ObservedQuiesced ==
    /\ sts.replicas = 0
    /\ sts.statusReplicas = 0
    /\ sts.currentRevision # ""

\* One reconcile of the workload, without fault (k = -1) or with the
\* fault striking its (k+1)-th mutation.
ReconcileWith(k, kind) ==
    \E w \in {World(k, kind)} : \E m \in {ReconcileBody(w)} :
    /\ k >= 0 => (faults < MaxFaults /\ m.faulted)
    /\ sts' = m.sts
    /\ pvcs' = m.pvcs
    /\ jobs' = m.jobs
    /\ calls' = m.calls
    /\ events' = m.events
    /\ faults' = IF m.faulted THEN faults + 1 ELSE faults
    /\ quiesced' = (quiesced \/ ObservedQuiesced)
    /\ UNCHANGED <<orig, completed>>

Reconcile == ReconcileWith(-1, "crash")

ReconcileCrash == \E k \in 0..(MaxCalls - 1) : ReconcileWith(k, "crash")

ReconcileError == \E k \in 0..(MaxCalls - 1) : ReconcileWith(k, "error")

Quiet == calls' = <<>> /\ events' = {}

\* the external StatefulSet controller brings the status one step closer
\* to the desired state and publishes its revision
StsController ==
    /\ sts.statusReplicas # sts.replicas \/ sts.currentRevision = ""
    /\ sts' = [sts EXCEPT
                 !.statusReplicas = IF @ < sts.replicas THEN @ + 1
                                    ELSE IF @ > sts.replicas THEN @ - 1 ELSE @,
                 !.currentRevision = "rev"]
    /\ Quiet
    /\ UNCHANGED <<pvcs, jobs, faults, orig, quiesced, completed>>

\* a copy-job's pod mounts both of its volumes, so it runs only while
\* both exist
JobName(v, d) == IF d = "backup" THEN BackupJob(v) ELSE RestoreJob(v)

JobCanRun(v, d) ==
    /\ jobs[JobName(v, d)] = "running"
    /\ Exists(pvcs[SrcName(v)])
    /\ Exists(pvcs[BkName(v)])

JobComplete ==
    \E v \in Vols, d \in Dirs :
        /\ JobCanRun(v, d)
        /\ jobs' = [jobs EXCEPT ![JobName(v, d)] = "complete"]
        /\ completed' = completed \cup {JobName(v, d)}
        /\ Quiet
        /\ UNCHANGED <<sts, pvcs, faults, orig, quiesced>>

JobFail ==
    \E v \in Vols, d \in Dirs :
        /\ JobCanRun(v, d)
        /\ jobs' = [jobs EXCEPT ![JobName(v, d)] = "failed"]
        /\ Quiet
        /\ UNCHANGED <<sts, pvcs, faults, orig, quiesced, completed>>

\* the finalizer of a deleted volume is removed and the object goes away
PvcFinalize ==
    \E v \in Vols :
        /\ pvcs[SrcName(v)].terminating
        /\ pvcs' = [pvcs EXCEPT ![SrcName(v)] = NoPVC]
        /\ Quiet
        /\ UNCHANGED <<sts, jobs, faults, orig, quiesced, completed>>

\* the operator, after looking at a failed workload, removes the label
UserClearFailed ==
    /\ sts.labels.failed = "true"
    /\ sts' = [sts EXCEPT !.labels.failed = ""]
    /\ Quiet
    /\ UNCHANGED <<pvcs, jobs, faults, orig, quiesced, completed>>

Next ==
    \/ Reconcile
    \/ ReconcileCrash
    \/ ReconcileError
    \/ StsController
    \/ JobComplete
    \/ JobFail
    \/ PvcFinalize
    \/ UserClearFailed

Spec == Init /\ [][Next]_vars

TypeOK ==
    /\ sts.replicas \in 0..MaxReplicas
    /\ sts.statusReplicas \in 0..MaxReplicas
    /\ faults \in 0..MaxFaults
    /\ \A n \in PVCNames : pvcs[n].size \in 0..TemplateSize
    /\ \A n \in JobNames : jobs[n] \in {"absent", "running", "complete", "failed"}

\* ================================================================ claims
\* the mutating calls of the last reconcile
CallIdx == 1..Len(calls)

\* the call deletes the original volume of v
DeletesOriginal(c, v) == c.op = "delete" /\ c.name = SrcName(v)

\* C1: the engine deletes an original volume only while a backup volume
\* under the descriptor's backup name exists, is not being removed and
\* requests at least the original's size; this also has to hold when an
\* object with the backup's name existed beforehand with a smaller request.
C1_DeleteOnlyWithBackup ==
    \A i \in CallIdx : \A v \in Vols :
        DeletesOriginal(calls[i], v) =>
            LET bk == calls[i].before[BkName(v)]
                src == calls[i].before[SrcName(v)] IN
            /\ Exists(bk)
            /\ ~bk.terminating
            /\ bk.size >= src.size

\* the pending list as the workload's annotation records it
Pending == IF sts.annotations.pvcs.present THEN Unmarshal(sts.annotations.pvcs) ELSE <<>>

\* the last reconcile resumed the workload on a Critical error that was
\* flagged safe-to-scale-up: its update set failed and scalup together
AbortedWithScaleUp ==
    /\ \E i \in CallIdx : /\ calls[i].op = "update"
                          /\ calls[i].sts.labels.failed # "true"
                          /\ ~isScalingUp(calls[i].sts)
    /\ sts.labels.failed = "true"
    /\ isScalingUp(sts)
    /\ \E e \in events : e.type = "Warning" /\ e.reason = "ResizeFailed"

\* C2: when the engine scales the workload back up because a backup step
\* raised a Critical error, the original of every pending volume still
\* exists, is not being removed and has its original size.
C2_AbortLeavesOriginals ==
    AbortedWithScaleUp =>
        \A i \in 1..Len(Pending) :
            LET src == pvcs[Pending[i].SourceName] IN
            /\ Exists(src)
            /\ ~src.terminating
            /\ src.size = Pending[i].SpecSize

\* the call is a step of the per-volume work
PerVolumeCall(c) == c.op \in {"create", "delete", "createJob", "deleteJob"}

\* C3: the engine creates no backup volume, creates no copy-job and deletes
\* no original before a reconcile has observed the workload quiesced:
\* desired replicas 0, observed replicas 0 and a revision marker.
C3_QuiesceBeforeVolumeWork ==
    (\E i \in CallIdx : PerVolumeCall(calls[i])) => quiesced

\* a workload that had replicas to stop has its first backup volume created
C3_Witness ==
    /\ orig > 0
    /\ quiesced
    /\ \E i \in CallIdx : \E v \in Vols :
          calls[i].op = "create" /\ calls[i].name = BkName(v)

\* the call starts the restore phase of volume v
StartsRestore(c, v) ==
    \/ c.op \in {"delete", "create"} /\ c.name = SrcName(v)
    \/ c.op = "createJob" /\ c.name = RestoreJob(v)

\* C4: for each volume the original is not deleted or recreated and no
\* backup-to-original copy-job is created until the original-to-backup
\* copy-job of that volume has reported complete.
C4_BackupBeforeRestore ==
    \A i \in CallIdx : \A v \in Vols :
        StartsRestore(calls[i], v) => BackupJob(v) \in completed

\* the original of a volume is deleted after its backup job completed
C4_Witness ==
    \E i \in CallIdx : \E v \in Vols :
        /\ DeletesOriginal(calls[i], v)
        /\ BackupJob(v) \in completed

\* the update of call c resumed the workload: desired replicas went from
\* 0 to above 0, or annotation scalup was set
Resumes(c) ==
    /\ c.op = "update"
    /\ \/ c.sts.replicas = 0 /\ sts.replicas > 0
       \/ ~isScalingUp(c.sts) /\ isScalingUp(sts)

\* C5 as stated: the engine resumes the workload (desired replicas above 0
\* or scalup=true) only when no descriptor is pending any more.
C5_ResumeOnlyWhenRestored ==
    \A i \in CallIdx : Resumes(calls[i]) => Len(Pending) = 0

\* C5 amended: the engine resumes the workload only when no descriptor is
\* pending any more, or in the update that also sets label failed=true
\* after a Critical error flagged safe-to-scale-up.
C5_ResumeOnlyWhenRestoredOrAborted ==
    \A i \in CallIdx :
        Resumes(calls[i]) => (Len(Pending) = 0 \/ AbortedWithScaleUp)

\* the workload is resumed on the abort path with descriptors pending
C5_Witness ==
    /\ \E i \in CallIdx : Resumes(calls[i])
    /\ Len(Pending) > 0
    /\ AbortedWithScaleUp
    /\ sts.replicas > 0

\* C6: once label failed=true is on the workload, a reconcile performs no
\* mutation through the cluster API and records no event.
C6_FailedIsInert ==
    [][sts.labels.failed = "true" => (calls' = <<>> /\ events' = {})]_vars

\* a workload that failed during its resize and has work left
C6_Witness ==
    /\ sts.labels.failed = "true"
    /\ Len(Pending) > 0
    /\ \E n \in JobNames : jobs[n] # "absent"
    /\ calls = <<>>

\* C7: a workload that carries scalup=true is not scaled down: no step
\* takes its desired replicas to 0.
C7_ScalingUpNotScaledDown ==
    [][isScalingUp(sts) => ~(sts.replicas > 0 /\ sts'.replicas = 0)]_vars

\* a reconcile has worked on a workload that was marked scaling up, was
\* not failed and had replicas and pending descriptors
C7_Witness ==
    \E i \in CallIdx :
        /\ isScalingUp(calls[i].sts)
        /\ calls[i].sts.labels.failed = ""
        /\ calls[i].sts.replicas > 0
        /\ calls[i].sts.annotations.pvcs.present
        /\ Len(calls[i].sts.annotations.pvcs.items) > 0

\* the run has ended successfully: the pending list is recorded as empty
\* and the workload is not failed
RunEnded ==
    /\ sts.annotations.pvcs.present
    /\ Len(sts.annotations.pvcs.items) = 0
    /\ sts.labels.failed = ""

\* C8: after a successful run the desired replicas equal the count that
\* was captured in annotation replicas at scale-down, which is the count
\* the workload had before; the observed replicas never exceed it and
\* the captured count is still the one recorded.
C8_ResumedAtCapturedCount ==
    RunEnded =>
        /\ sts.replicas = orig
        /\ sts.statusReplicas <= orig
        /\ sts.annotations.replicas # <<>> =>
               getOriginalReplicaCount(sts) = [ok |-> TRUE, val |-> orig]

\* a workload with replicas has ended its run and is observed resumed
C8_Witness ==
    /\ RunEnded
    /\ orig > 0
    /\ sts.statusReplicas = orig
    /\ \E v \in Vols : pvcs[SrcName(v)].size = TemplateSize /\ BackupJob(v) \in completed

\* ------------------------------------------------------------ progress
\* The runs in which every copy-job that can run completes, the workload
\* controller writes the status, finalizers are removed and the engine
\* keeps being triggered; no copy-job fails and nobody edits the labels.
Fairness ==
    /\ WF_vars(Reconcile)
    /\ WF_vars(StsController)
    /\ WF_vars(JobComplete)
    /\ WF_vars(PvcFinalize)

\* ... with an engine that is never interrupted
LiveNext ==
    \/ Reconcile
    \/ StsController
    \/ JobComplete
    \/ PvcFinalize

LiveSpec == Init /\ [][LiveNext]_vars /\ Fairness

\* ... with an engine that may stop between two API calls or have a call
\* fail, at most MaxFaults times
CrashNext ==
    \/ Reconcile
    \/ ReconcileCrash
    \/ ReconcileError
    \/ StsController
    \/ JobComplete
    \/ PvcFinalize

CrashSpec == Init /\ [][CrashNext]_vars /\ Fairness

\* every volume of the workload requests the template's size and the
\* workload's desired replicas are the count it had at the start
Resized ==
    /\ \A v \in Vols : pvcs[SrcName(v)] = PVC(TemplateSize)
    /\ sts.replicas = orig

\* the workload is also observed with that many replicas
Resumed == Resized /\ sts.statusReplicas = orig

\* some volume of the workload is too small
SomeTooSmall == \E v \in Vols : isGreaterStorageRequest(pvcs[SrcName(v)], TemplateSize)

\* C9: whatever the point at which the engine stopped or a call failed,
\* a workload that is not failed ends with every volume at the target
\* size and resumed, provided jobs complete and the status is written.
C9_ResumableAfterCrash == (sts.labels.failed = "") ~> Resumed

\* C10: if every copy-job completes and the status is written, a workload
\* that is not failed and has a volume that is too small ends with every
\* volume at the template's size and with its desired replicas at the
\* original count.
C10_EventuallyResized == (sts.labels.failed = "" /\ SomeTooSmall) ~> Resized

\* a workload with replicas is resized after both copies of a volume ran
C10_Witness ==
    /\ Resized
    /\ orig > 0
    /\ \E v \in Vols : {BackupJob(v), RestoreJob(v)} \subseteq completed

\* ------------------------------------------------------------ run end
\* every volume is restored and the workload is fully resumed: desired
\* and observed replicas are the original count, the status is written
FullyResumed ==
    /\ RunEnded
    /\ \A v \in Vols : pvcs[SrcName(v)] = PVC(TemplateSize)
    /\ sts.replicas = orig
    /\ sts.statusReplicas = orig
    /\ sts.currentRevision # ""

\* a further reconcile changes nothing: no call, no event, same workload
ReconcileIdle ==
    \E m \in {ReconcileBody(World(-1, "crash"))} :
        m.sts = sts /\ m.calls = <<>> /\ m.events = {}

\* the annotations of a run are gone (an empty list counts as no plan)
AnnotationsCleared ==
    /\ sts.annotations.replicas = <<>>
    /\ sts.annotations.scalup = ""
    /\ Pending = <<>>

\* C11: once every volume is restored and the workload is fully resumed,
\* the run does not come to rest (a state in which a further reconcile
\* changes nothing) with annotation replicas or scalup, or a non-empty
\* pending list, still on the workload.
C11_NoAnnotationLeft == (FullyResumed /\ ReconcileIdle) => AnnotationsCleared

\* volume v has a descriptor in the list pis, in the persisted pending list
Has(pis, v) == \E i \in 1..Len(pis) : pis[i].SourceName = SrcName(v)

InPending(v) == Has(Pending, v)

\* ----------------------------------------------------------- failures
\* volume v is on the list a reconcile works on
ListedIn(pis, v) ==
    IF sts.annotations.pvcs.present
    THEN Has(pis, v)
    ELSE /\ Exists(pvcs[SrcName(v)])
         /\ isGreaterStorageRequest(pvcs[SrcName(v)], TemplateSize)

Listed(v) == ListedIn(Pending, v)

\* a reconcile of this state gets as far as the copy-job d of volume v
\* and finds it failed: the workload is not failed, the scale-down step
\* lets the pass go on, and no other copy-job has failed
FailedJobSeen(v, d) ==
    /\ sts.labels.failed = ""
    /\ PrepareScaleDown(sts).done
    /\ Listed(v)
    /\ jobs[JobName(v, d)] = "failed"
    /\ \A w \in Vols, e \in Dirs : <<w, e>> # <<v, d>> => jobs[JobName(w, e)] # "failed"

WarningEvent(msg) == [type |-> "Warning", reason |-> "ResizeFailed", msg |-> msg]

BackedUpListed(v) ==
    \E i \in 1..Len(Pending) :
        Pending[i].SourceName = SrcName(v) /\ Pending[i].BackedUp

\* C13: the reconcile that observes a failed restore copy-job sets label
\* failed=true and records a warning event, and does not resume the
\* workload: desired replicas and annotation scalup stay as they were,
\* which for a quiesced workload is 0 and unset.
C13_RestoreFailureNoScaleUp ==
    [][\A v \in Vols :
         (FailedJobSeen(v, "restore") /\ BackedUpListed(v) /\ Reconcile) =>
            /\ sts'.labels.failed = "true"
            /\ \E e \in events' : e.type = "Warning" /\ e.reason = "ResizeFailed"
            /\ sts'.replicas = sts.replicas
            /\ sts'.annotations.scalup = sts.annotations.scalup
            /\ ObservedQuiesced => (sts'.replicas = 0 /\ ~isScalingUp(sts'))]_vars

\* a workload that had replicas is marked failed and left at 0 replicas
\* by the reconcile that found the restore copy-job of a volume failed
C13_Witness ==
    \E v \in Vols :
        /\ jobs[RestoreJob(v)] = "failed"
        /\ \E e \in events : e.type = "Warning" /\ e.reason = "ResizeFailed"
        /\ sts.labels.failed = "true"
        /\ orig > 0
        /\ sts.replicas = 0
        /\ ~isScalingUp(sts)

\* -------------------------------------------------------- lost backup
\* somebody removes the backup volume of a workload's volume
BackupLost ==
    \E v \in Vols :
        /\ Exists(pvcs[BkName(v)])
        /\ pvcs' = [pvcs EXCEPT ![BkName(v)] = NoPVC]
        /\ Quiet
        /\ UNCHANGED <<sts, jobs, faults, orig, quiesced, completed>>

\* the runs of an engine that is never interrupted, with copy-jobs that
\* do not fail, in a cluster where backup volumes can be removed
LossNext ==
    \/ Reconcile
    \/ StsController
    \/ JobComplete
    \/ PvcFinalize
    \/ BackupLost

LossSpec == Init /\ [][LossNext]_vars

\* a reconcile of this state gets to the restore of volume v and finds
\* neither the original nor the backup
RestoreOfMissing(v) ==
    /\ sts.labels.failed = ""
    /\ PrepareScaleDown(sts).done
    /\ BackedUpListed(v)
    /\ ~Exists(pvcs[SrcName(v)])
    /\ ~Exists(pvcs[BkName(v)])

\* C14: the reconcile that, restoring a volume, finds the original absent
\* and the backup absent too records a warning event, sets label
\* failed=true and does not resume the workload.
C14_MissingBothIsCritical ==
    [][\A v \in Vols :
         (RestoreOfMissing(v) /\ Reconcile) =>
            /\ sts'.labels.failed = "true"
            /\ \E e \in events' : e.type = "Warning"
            /\ sts'.replicas = sts.replicas
            /\ sts'.annotations.scalup = sts.annotations.scalup]_vars

\* ---------------------------------------------------- diverging backup
\* in the cluster state ps the object under the backup name of volume v
\* is not the backup the engine would create: it requests another size
DivergingBackup(ps, v) ==
    /\ Exists(ps[BkName(v)])
    /\ ps[BkName(v)].size # GetBackup(NewEntity(SrcName(v), SmallSize, TemplateSize)).size

\* the update c records volume v as backed up: the workload it replaced
\* did not list v as backed up, the workload it wrote does
MarksBackedUp(c, v) ==
    /\ c.op = "update"
    /\ BackedUpListed(v)
    /\ ~\E i \in 1..Len(c.sts.annotations.pvcs.items) :
          LET pi == UnmarshalEntity(c.sts.annotations.pvcs.items[i]) IN
          pi.SourceName = SrcName(v) /\ pi.BackedUp

\* C15: while an object with the backup's name exists whose request
\* differs from the backup the engine would create, no original-to-backup
\* copy-job is created for that volume and no update records the volume
\* as backed up.
C15_DivergingBackupAborts ==
    \A i \in CallIdx : \A v \in Vols :
        DivergingBackup(calls[i].before, v) =>
            /\ ~(calls[i].op = "createJob" /\ calls[i].name = BackupJob(v))
            /\ ~MarksBackedUp(calls[i], v)

\* ------------------------------------------------------ failing calls
\* no copy-job has failed, so that no step of a reconcile has a Critical
\* error to report
NoJobFailed == \A n \in JobNames : jobs[n] # "failed"

\* no copy-job is finished, so that a reconcile has no clean-up delete of
\* a copy-job to issue
NoJobComplete == \A n \in JobNames : jobs[n] # "complete"

\* a reconcile in which a call failed leaves label failed unset and does
\* not resume the workload while descriptors are pending
ErrorKeepsWorkload ==
    /\ sts'.labels.failed = ""
    /\ Len(Pending') > 0 =>
          /\ sts'.replicas <= sts.replicas
          /\ isScalingUp(sts') => isScalingUp(sts)

C17_NoMarkerNotScaledDown ==
    [][sts.currentRevision = "" =>
          /\ ~isScaledDown(sts)
          /\ \A i \in 1..Len(calls') : ~PerVolumeCall(calls'[i])]_vars

\* the engine has acted on a workload with desired and observed replicas
\* 0 whose status is not written yet
C17_Witness ==
    /\ sts.currentRevision = ""
    /\ sts.replicas = 0
    /\ sts.statusReplicas = 0
    /\ \E i \in CallIdx : calls[i].op = "update"
    /\ SomeTooSmall

\* ------------------------------------------------------ captured count
\* C18: the step that takes the desired replicas from above 0 to 0 writes
\* that count to annotation replicas, and no later step replaces a count
\* that is recorded by another one: a scale-down attempt made while the
\* workload is still stopping does not record 0.
C18_CountCapturedOnce ==
    [][/\ (sts.replicas > 0 /\ sts'.replicas = 0) =>
              sts'.annotations.replicas = Itoa(sts.replicas)
       /\ (sts.annotations.replicas # <<>> /\ sts'.annotations.replicas # <<>>) =>
              sts'.annotations.replicas = sts.annotations.replicas]_vars

\* a reconcile has found the workload still stopping, with the count it
\* had captured, and has changed nothing
C18_Witness ==
    /\ orig > 0
    /\ sts.replicas = 0
    /\ sts.statusReplicas = orig
    /\ sts.annotations.replicas = Itoa(orig)
    /\ calls = <<>>

\* ===================================================== scale functions
\* PrepareScaleDown and PrepareScaleUp on their own: every workload with
\* up to MaxReplicas desired and observed replicas, with or without a
\* revision marker, with annotation replicas absent, a count or not a
\* number, and with or without scalup.  The functions are applied in any
\* order while the workload's controller moves the status.
ScaleInputs ==
    {[replicas |-> n,
      statusReplicas |-> o,
      currentRevision |-> rev,
      annotations |-> [replicas |-> a, scalup |-> u, pvcs |-> NoPlan],
      labels |-> [failed |-> ""]] :
        n \in 0..MaxReplicas, o \in 0..MaxReplicas, rev \in {"", "rev"},
        a \in {<<>>, NotANumber} \cup {Itoa(k) : k \in 0..MaxReplicas},
        u \in {"", "true"}}

ScaleInit ==
    /\ sts \in ScaleInputs
    /\ orig = sts.replicas
    /\ quiesced = FALSE
    /\ completed = {}
    /\ pvcs = [n \in PVCNames |-> IF \E v \in Vols : n = SrcName(v)
                                  THEN PVC(TemplateSize) ELSE NoPVC]
    /\ jobs = [n \in JobNames |-> "absent"]
    /\ calls = <<>>
    /\ events = {}
    /\ faults = 0

\* what the function returned: its error, or else its boolean
Returned(r) ==
    IF r.err THEN <<"error">> ELSE IF r.done THEN <<"true">> ELSE <<"false">>

\* the record of one application: the function, what it returned and the
\* workload it was applied to
Applied(fn, ret) == Call(fn, ret, [pvcs |-> pvcs, sts |-> sts])

ApplyScaleDown ==
    \E r \in {PrepareScaleDown(sts)} :
        /\ sts' = r.sts
        /\ calls' = <<Applied("PrepareScaleDown", Returned([done |-> r.done, err |-> FALSE]))>>
        /\ events' = {}
        /\ UNCHANGED <<pvcs, jobs, faults, orig, quiesced, completed>>

ApplyScaleUp ==
    \E r \in {PrepareScaleUp(sts)} :
        /\ sts' = r.sts
        /\ calls' = <<Applied("PrepareScaleUp", Returned(r))>>
        /\ events' = {}
        /\ UNCHANGED <<pvcs, jobs, faults, orig, quiesced, completed>>

ScaleNext ==
    \/ ApplyScaleDown
    \/ ApplyScaleUp
    \/ StsController

ScaleSpec == ScaleInit /\ [][ScaleNext]_vars

\* the workload s has N desired and N observed replicas, and its status
\* is written
ResumedAt(s, N) ==
    s.replicas = N /\ s.statusReplicas = N /\ s.currentRevision # ""

\* C19: with N the count parsed from annotation replicas, PrepareScaleUp
\* returns true, with replicas and scalup cleared and nothing else
\* changed, when desired = N, observed = N and the revision marker is
\* non-empty; in every other case it returns false, with scalup=true,
\* desired = N and annotation replicas kept.  When the annotation does
\* not parse it returns the error and changes nothing.
C19_ScaleUpContract ==
    \A i \in CallIdx :
        calls[i].op = "PrepareScaleUp" =>
            LET in == calls[i].sts
                N == getOriginalReplicaCount(in) IN
            IF ~N.ok
            THEN calls[i].name = <<"error">> /\ sts = in
            ELSE IF ResumedAt(in, N.val)
            THEN /\ calls[i].name = <<"true">>
                 /\ sts = [in EXCEPT !.annotations.replicas = <<>>,
                                     !.annotations.scalup = ""]
            ELSE /\ calls[i].name = <<"false">>
                 /\ sts = [in EXCEPT !.annotations.scalup = "true",
                                     !.replicas = N.val]

\* PrepareScaleUp was applied to a workload at 0 replicas with a count
\* above 0 recorded: it is marked, its desired replicas are the count
\* and the count is still recorded
C19_Witness ==
    \E i \in CallIdx :
        /\ calls[i].op = "PrepareScaleUp"
        /\ calls[i].name = <<"false">>
        /\ calls[i].sts.replicas = 0
        /\ ~isScalingUp(calls[i].sts)
        /\ sts.replicas > 0
        /\ isScalingUp(sts)
        /\ getOriginalReplicaCount(sts) = [ok |-> TRUE, val |-> sts.replicas]

\* C20: PrepareScaleDown and PrepareScaleUp are idempotent: applied again
\* to the workload the first application produced, with the observed
\* status unchanged, each returns what it returned before (an
\* application that returned no error returns none) and changes nothing.
C20_ScaleIdempotent ==
    [][\A i \in 1..Len(calls') :
          /\ calls'[i].op = "PrepareScaleDown" =>
                 \E r \in {PrepareScaleDown(sts')} :
                     /\ r.sts = sts'
                     /\ Returned([done |-> r.done, err |-> FALSE]) = calls'[i].name
          /\ (calls'[i].op = "PrepareScaleUp" /\ calls'[i].name # <<"error">>) =>
                 \E r \in {PrepareScaleUp(sts')} :
                     /\ r.sts = sts'
                     /\ Returned(r) = calls'[i].name]_vars

\* ================================================== unreadable records
\* C21: the reconcile that finishes the last descriptor of a workload whose
\* annotation replicas does not parse, and so goes on to resume it, sets
\* label failed=true and records a warning event.
C21_UnparseableCountIsCritical ==
    [][(/\ sts.labels.failed = ""
        /\ Len(Pending) > 0
        /\ ~getOriginalReplicaCount(sts).ok
        /\ Reconcile
        /\ sts'.annotations.pvcs.present
        /\ Len(Pending') = 0) =>
           /\ sts'.labels.failed = "true"
           /\ \E e \in events' : e.type = "Warning"]_vars

\* the engine on a workload that already carries annotation pvcs when it
\* is first seen: absent, the empty list a finished resize leaves behind,
\* a list of descriptors, or a list that json.Unmarshal rejects because a
\* quantity in it is not one
PlanOf(v) == Marshal(<<NewEntity(SrcName(v), SmallSize, TemplateSize)>>)

UnreadablePlan(v) == [PlanOf(v) EXCEPT !.items[1].Spec = NotANumber]

EmptyPlan == Marshal(<<>>)

PlanInputs ==
    {NoPlan, EmptyPlan} \cup {PlanOf(v) : v \in Vols} \cup {UnreadablePlan(v) : v \in Vols}

PlanInit ==
    /\ \E n \in 0..MaxReplicas, synced \in BOOLEAN, a \in PlanInputs :
          sts = [InitSts(n, synced, FALSE) EXCEPT !.annotations.pvcs = a]
    /\ orig = sts.replicas
    /\ quiesced = FALSE
    /\ completed = {}
    /\ pvcs = [n \in PVCNames |-> IF \E v \in Vols : n = SrcName(v)
                                  THEN PVC(SmallSize) ELSE NoPVC]
    /\ jobs = [n \in JobNames |-> "absent"]
    /\ calls = <<>>
    /\ events = {}
    /\ faults = 0

PlanSpec == PlanInit /\ [][LiveNext]_vars

\* annotation pvcs is present on the workload and does not parse
Unreadable == sts.annotations.pvcs.present /\ ~Readable(sts.annotations.pvcs)

\* C22: when annotation pvcs is present and does not parse, constructing
\* the workload descriptor fails with a Critical error.
C22_UnreadablePlanIsCritical == Unreadable => isCritical(NewInfo(sts).err)

\* ===================================================== commit discipline
\* the calls of the last reconcile that update the workload
UpdateIdx == {i \in CallIdx : calls[i].op = "update"}

\* C23: a reconcile issues at most one update of the workload, as its
\* last call, and the workload it writes differs from the one it replaces
\* in annotations, labels or desired replicas.
C23_OneUpdateIfChanged ==
    /\ Cardinality(UpdateIdx) <= 1
    /\ \A i \in UpdateIdx :
          /\ i = Len(calls)
          /\ \/ sts.annotations # calls[i].sts.annotations
             \/ sts.labels # calls[i].sts.labels
             \/ sts.replicas # calls[i].sts.replicas

\* a reconcile has worked on the volumes and, with nothing to record on
\* the workload, has not updated it
C23_Witness ==
    /\ \E i \in CallIdx : PerVolumeCall(calls[i])
    /\ UpdateIdx = {}
    /\ faults = 0
    /\ sts.labels.failed = ""

\* ============================================================ repetition
\* the calls a further reconcile of the present state would issue
NextCalls == ReconcileBody(World(-1, "crash")).calls

\* the call deletes an original that is already being removed
IsRedelete(c) ==
    /\ c.op = "delete"
    /\ \E v \in Vols : c.name = SrcName(v)
    /\ c.before[c.name].terminating

\* the step is an uninterrupted reconcile that issued calls: every other
\* action leaves no call behind, and an interrupted reconcile counts a fault
ReconciledWithCalls == calls' # <<>> /\ faults' = faults

CompletedBackupSeen(v) ==
    /\ sts.labels.failed = ""
    /\ PrepareScaleDown(sts).done
    /\ Listed(v)
    /\ ~BackedUpListed(v)
    /\ jobs[BackupJob(v)] = "complete"
    /\ NoJobFailed

\* C25: a reconcile that finds the backup copy-job of a volume complete
\* and not yet deleted (as after a restart between completion and
\* clean-up) deletes that job, creates no new copy-job for the same source
\* and backup, and persists the volume's descriptor with backedUp=true,
\* or without the descriptor when the pass finished the restore as well.
C25_CompletedBackupNotRerun ==
    [][\A v \in Vols :
         (CompletedBackupSeen(v) /\ Reconcile) =>
            /\ \E i \in 1..Len(calls') :
                   calls'[i].op = "deleteJob" /\ calls'[i].name = BackupJob(v)
            /\ \A i \in 1..Len(calls') :
                   ~(calls'[i].op = "createJob" /\ calls'[i].name = BackupJob(v))
            /\ jobs'[BackupJob(v)] = "absent"
            /\ sts'.annotations.pvcs.present
            /\ BackedUpListed(v)' \/ ~InPending(v)']_vars

\* after an interrupted reconcile, a later one has deleted the finished
\* backup copy-job of a volume and recorded its backup as done
C25_Witness ==
    \E v \in Vols :
        /\ faults > 0
        /\ BackupJob(v) \in completed
        /\ \E i \in CallIdx :
               calls[i].op = "deleteJob" /\ calls[i].name = BackupJob(v)
        /\ jobs[BackupJob(v)] = "absent"
        /\ BackedUpListed(v)

\* the last reconcile cleaned up the finished restore copy-job of v
RestoreCleaned(v) ==
    \E i \in CallIdx : calls[i].op = "deleteJob" /\ calls[i].name = RestoreJob(v)

\* the last reconcile wrote the workload
Persisted == calls # <<>> /\ calls[Len(calls)].op = "update"

\* C26: a descriptor leaves the persisted pending list only in a step
\* before which both the backup and the restore copy-job of its volume
\* have completed; after a reconcile that wrote a workload not failed,
\* also one that stopped at a volume's error, the list holds only listed
\* volumes whose restore that reconcile did not finish, and when none of
\* its calls failed it holds all of them;
\* and when the list becomes empty, the original of every volume it held
\* exists with a request not below the template's.
C26_PendingUntilDone ==
    [][\E p \in {Pending}, q \in {Pending'} : \A v \in Vols :
         /\ (Has(p, v) /\ ~Has(q, v)) =>
                /\ BackupJob(v) \in completed
                /\ RestoreJob(v) \in completed
         /\ (Persisted' /\ sts.labels.failed = "") =>
                (Has(q, v) => (ListedIn(p, v) /\ ~RestoreCleaned(v)'))
         /\ (ReconciledWithCalls /\ sts.labels.failed = "") =>
                ((ListedIn(p, v) /\ ~RestoreCleaned(v)') => Has(q, v))
         /\ (Has(p, v) /\ Len(q) = 0) =>
                /\ Exists(pvcs'[SrcName(v)])
                /\ ~isGreaterStorageRequest(pvcs'[SrcName(v)], TemplateSize)]_vars

\* a reconcile stopped at the failed copy-job of one volume and removed
\* the descriptor of another, whose restore it had found finished
C26_Witness ==
    \E v, w \in Vols :
        /\ v # w
        /\ RestoreCleaned(v)
        /\ ~InPending(v)
        /\ InPending(w)
        /\ sts.labels.failed = "true"
        /\ \E e \in events : e.type = "Warning"

\* ======================================================= the pending list
\* the objects the engine touches for volume v
ObjectsOf(v) == {SrcName(v), BkName(v), BackupJob(v), RestoreJob(v)}

\* C27: a reconcile of a workload that carries annotation pvcs works on
\* the annotation's list as it is: it adds no volume to the list and
\* issues no call for a volume that is not on it.
C27_PresentPlanUsedAsIs ==
    [][(sts.annotations.pvcs.present /\ calls' # <<>>) =>
          \E p \in {Pending}, q \in {Pending'} : \A v \in Vols :
              /\ Has(q, v) => Has(p, v)
              /\ ~Has(p, v) =>
                     \A i \in 1..Len(calls') : calls'[i].name \notin ObjectsOf(v)]_vars

\* ------------------------------------------- the scan (filterResizablePVCs)
\* strings.HasPrefix and strings.TrimPrefix on names as character sequences
HasPrefix(s, prefix) ==
    Len(s) >= Len(prefix) /\ SubSeq(s, 1, Len(prefix)) = prefix

TrimPrefix(s, prefix) ==
    IF HasPrefix(s, prefix) THEN SubSeq(s, Len(prefix) + 1, Len(s)) ELSE s

Dash == <<"-">>
TplName == <<"d", "b">>         \* the volume claim template "db"
StsName == <<"w">>              \* the workload "w"
OwnNamespace == "foo"

\* isPVCTooSmall: the volume is one of the template and the workload, by
\* its name, and requests less than the template
isPVCTooSmall(p, tplName, tplSize, stsName) ==
    IF ~HasPrefix(p.Name, tplName) THEN FALSE
    ELSE LET n == TrimPrefix(p.Name, tplName \o Dash) IN
         IF ~HasPrefix(n, stsName) THEN FALSE
         ELSE LET o == TrimPrefix(n, stsName \o Dash) IN
              IF ~Atoi(o).ok THEN FALSE
              ELSE isGreaterStorageRequest(p, tplSize)

\* filterResizablePVCs on a listing: the descriptors of the volumes of the
\* workload's namespace that isPVCTooSmall accepts, in listing order
RECURSIVE filterListing(_, _)
filterListing(ns, items) ==
    IF items = <<>> THEN <<>>
    ELSE (IF Head(items).Namespace = ns
             /\ isPVCTooSmall(Head(items), TplName, TemplateSize, StsName)
          THEN <<NewEntity(Head(items).Name, Head(items).size, TemplateSize)>>
          ELSE <<>>) \o filterListing(ns, Tail(items))

\* names a listing can hold: volumes of the workload with ordinals 0, 1
\* and 10, and names that are close to those
ListedNames ==
    LET own == TplName \o Dash \o StsName \o Dash IN
    {own \o <<"0">>, own \o <<"1">>, own \o <<"1", "0">>,
     own \o <<"x">>,
     own \o <<"0", "x">>,
     own \o <<"-", "1">>,
     own \o <<"0", "-", "1">>,
     TplName \o Dash \o StsName,
     TplName \o Dash \o StsName \o <<"2">> \o Dash \o <<"0">>,
     TplName \o Dash \o StsName \o StsName \o Dash \o <<"0">>,
     TplName \o <<"x">> \o Dash \o StsName \o Dash \o <<"0">>,
     <<"l", "g">> \o Dash \o StsName \o Dash \o <<"0">>}

ListedVolumes ==
    {[Name |-> n, Namespace |-> ns, size |-> sz] :
        n \in ListedNames, ns \in {OwnNamespace, "bar"}, sz \in {SmallSize, TemplateSize}}

\* the scan on its own: a listing of one or two volumes is filtered once
FilterInit ==
    /\ sts = InitSts(0, TRUE, FALSE)
    /\ orig = 0
    /\ quiesced = FALSE
    /\ completed = {}
    /\ pvcs \in {<<a>> : a \in ListedVolumes}
               \cup {<<a, b>> : a \in ListedVolumes, b \in ListedVolumes}
    /\ jobs = [n \in JobNames |-> "absent"]
    /\ calls = <<>>
    /\ events = {}
    /\ faults = 0

ApplyFilter ==
    /\ calls = <<>>
    /\ calls' = <<Applied("filterResizablePVCs", filterListing(OwnNamespace, pvcs))>>
    /\ UNCHANGED <<sts, pvcs, jobs, events, faults, orig, quiesced, completed>>

FilterNext == ApplyFilter

FilterSpec == FilterInit /\ [][FilterNext]_vars

\* the name is <template>-<workload>-<ordinal>, the ordinal being one or
\* more digits
IsOrdinalName(n) ==
    LET own == TplName \o Dash \o StsName \o Dash
        o == TrimPrefix(n, own) IN
    /\ HasPrefix(n, own)
    /\ o # <<>>
    /\ \A i \in 1..Len(o) : IsDigit(o[i])

\* the volume belongs on the pending list
Resizable(p) ==
    /\ p.Namespace = OwnNamespace
    /\ IsOrdinalName(p.Name)
    /\ p.size < TemplateSize

\* C28: the computed pending list holds exactly the listed volumes of the
\* workload's namespace that are named <template>-<workload>-<ordinal>,
\* with a non-negative integer ordinal, and request less than the
\* template, in listing order.
C28_ScanSelectsOwnSmallVolumes ==
    \A i \in CallIdx :
        calls[i].op = "filterResizablePVCs" =>
            LET want == SelectSeq(calls[i].before, Resizable) IN
            /\ Len(calls[i].name) = Len(want)
            /\ \A j \in 1..Len(want) : calls[i].name[j].SourceName = want[j].Name

\* the workload has no pending list and every volume it has requests at
\* least the template's size
NothingToResize ==
    /\ Pending = <<>>
    /\ \A v \in Vols :
          Exists(pvcs[SrcName(v)]) =>
              ~isGreaterStorageRequest(pvcs[SrcName(v)], TemplateSize)

\* C29: a reconcile of a workload whose volumes all request at least the
\* template's size (equal included) and that has no pending list changes
\* nothing: it issues no call (no scale-down, no backup volume, no
\* copy-job), records no event and leaves annotations and labels alone.
C29_NoResizeNoChange == NothingToResize => ReconcileIdle

\* a reconcile has seen a stopped workload whose volumes all request the
\* template's size, and nothing was written or created
C29_Witness ==
    /\ quiesced
    /\ \A v \in Vols : pvcs[SrcName(v)] = PVC(TemplateSize)
    /\ \A v \in Vols : ~Exists(pvcs[BkName(v)])
    /\ \A n \in JobNames : jobs[n] = "absent"
    /\ sts = InitSts(0, TRUE, FALSE)
    /\ completed = {}

\* --------------------------------------------- names (naming.ShortenName)
\* Names are character sequences; a character's byte is its ASCII code.
Lower == <<"a", "b", "c", "d", "e", "f", "g", "h", "i", "j", "k", "l", "m",
           "n", "o", "p", "q", "r", "s", "t", "u", "v", "w", "x", "y", "z">>
Upper == <<"A", "B", "C", "D", "E", "F", "G", "H", "I", "J", "K", "L", "M",
           "N", "O", "P", "Q", "R", "S", "T", "U", "V", "W", "X", "Y", "Z">>

IndexIn(seq, c) == CHOOSE i \in 1..Len(seq) : seq[i] = c
IsIn(seq, c) == \E i \in 1..Len(seq) : seq[i] = c

Byte(c) ==
    IF IsDigit(c) THEN 48 + DigitVal(c)
    ELSE IF IsIn(Lower, c) THEN 96 + IndexIn(Lower, c)
    ELSE IF IsIn(Upper, c) THEN 64 + IndexIn(Upper, c)
    ELSE IF c = "-" THEN 45
    ELSE IF c = "." THEN 46
    ELSE 32

\* strings.ToLower
ToLower(s) ==
    [i \in 1..Len(s) |-> IF IsIn(Upper, s[i]) THEN Lower[IndexIn(Upper, s[i])] ELSE s[i]]

Rep(c, n) == [i \in 1..n |-> c]

\* A checksum register is a sequence of bits, lowest bit first.
ByteBits(n) == [i \in 1..8 |-> (n \div (2 ^ (i - 1))) % 2]

Xor(a, b) == [i \in 1..Len(a) |-> (a[i] + (IF i <= Len(b) THEN b[i] ELSE 0)) % 2]

\* the reflected polynomials: crc64.ISO = 0xD800000000000000 and
\* crc32.IEEE = 0xedb88320
Poly64 == [i \in 1..64 |-> IF (i - 1) \in {59, 60, 62, 63} THEN 1 ELSE 0]
Poly32 ==
    [i \in 1..32 |->
        IF (i - 1) \in {5, 8, 9, 15, 19, 20, 21, 23, 24, 26, 27, 29, 30, 31} THEN 1 ELSE 0]

\* one bit of the register is consumed
crcShift(crc, poly) ==
    LET sh == Tail(crc) \o <<0>> IN
    IF crc[1] = 1 THEN Xor(sh, poly) ELSE sh

RECURSIVE crcShifts(_, _, _)
crcShifts(crc, poly, n) ==
    IF n = 0 THEN crc
    ELSE With(crcShift(crc, poly), LAMBDA c : crcShifts(c, poly, n - 1))

\* update: the bytes of s are folded into the register, first to last
\* (the first half of s, then the second, to keep the evaluation shallow)
RECURSIVE crcUpdate(_, _, _)
crcUpdate(crc, poly, s) ==
    IF s = <<>> THEN crc
    ELSE IF Len(s) = 1
    THEN crcShifts(Xor(crc, ByteBits(Byte(s[1]))), poly, 8)
    ELSE With(crcUpdate(crc, poly, SubSeq(s, 1, Len(s) \div 2)), LAMBDA c :
         crcUpdate(c, poly, SubSeq(s, (Len(s) \div 2) + 1, Len(s))))

\* Sum64 / Sum32 of a fresh hash that s was written to
Checksum(poly, s) ==
    LET ones == Rep(1, Len(poly)) IN
    Xor(crcUpdate(ones, poly, s), ones)

\* the register in hex, highest digit first, all digits
HexDigits == Digits \o <<"a", "b", "c", "d", "e", "f">>

Hex(bits) ==
    LET n == Len(bits) \div 4 IN
    [k \in 1..n |->
        LET lo == 4 * (n - k) IN
        HexDigits[bits[lo + 1] + 2 * bits[lo + 2] + 4 * bits[lo + 3] + 8 * bits[lo + 4] + 1]]

RECURSIVE StripZeros(_)
StripZeros(h) ==
    IF Len(h) > 1 /\ Head(h) = "0" THEN StripZeros(Tail(h)) ELSE h

\* fmt verbs: %08x pads with zeros, %16x pads with spaces
Sprintf08x(bits) == Hex(bits)

Sprintf16x(bits) ==
    LET h == StripZeros(Hex(bits)) IN Rep(" ", 16 - Len(h)) \o h

\* ShortenName64, ShortenName32, ShortenName: [name, err]
ShortenName64(s, l) ==
    IF Len(s) <= l THEN [name |-> s, err |-> FALSE]
    ELSE IF l < 16 THEN [name |-> <<>>, err |-> TRUE]
    ELSE [name |-> SubSeq(s, 1, l - 16) \o Sprintf16x(Checksum(Poly64, s)), err |-> FALSE]

ShortenName32(s, l) ==
    IF Len(s) <= l THEN [name |-> s, err |-> FALSE]
    ELSE IF l < 8 THEN [name |-> <<>>, err |-> TRUE]
    ELSE [name |-> SubSeq(s, 1, l - 8) \o Sprintf08x(Checksum(Poly32, s)), err |-> FALSE]

ShortenName(s, l) ==
    IF Len(s) <= l THEN [name |-> s, err |-> FALSE]
    ELSE IF l > 32 THEN ShortenName64(s, l)
    ELSE ShortenName32(s, l)

\* Entity.BackupName on a descriptor whose name and request are text
maxNameLength == 63

BackupSuffix(q) == <<"-", "b", "a", "c", "k", "u", "p", "-">> \o q

BackupNameText(pi) ==
    LET suffix == BackupSuffix(pi.Spec)
        short == ShortenName(pi.SourceName, maxNameLength - Len(suffix))
    IN ToLower(short.name \o suffix)

\* BackupName on its own: a workload whose pending list holds one
\* descriptor, with a short or a long volume name, a short request, one
\* with a unit or a very long one, in the backup phase, between the
\* phases and after the restore
LongName(n) == <<"d", "a", "t", "a", "-">> \o Rep("o", n) \o <<"-", "0">>

NameInputs ==
    {[SourceName |-> n, Spec |-> q, TargetSize |-> t, BackedUp |-> FALSE, Restored |-> FALSE] :
        n \in {<<"f", "o", "o">>,
               <<"d", "a", "t", "a", "-", "w", "e", "b", "-", "0">>,
               <<"b", "a", "r">> \o Rep("x", 40),
               LongName(50),
               LongName(51)},
        q \in {Itoa(SmallSize), <<"5", "G">>, Rep("1", 29) \o <<"E">>},
        t \in {Itoa(TemplateSize), <<"1", "0", "G">>}}

NameInit ==
    /\ \E e \in NameInputs :
          sts = [InitSts(0, TRUE, FALSE) EXCEPT
                    !.annotations.pvcs = [present |-> TRUE, items |-> <<e>>]]
    /\ orig = 0
    /\ quiesced = FALSE
    /\ completed = {}
    /\ pvcs = [n \in PVCNames |-> NoPVC]
    /\ jobs = [n \in JobNames |-> "absent"]
    /\ calls = <<>>
    /\ events = {}
    /\ faults = 0

\* the descriptor of the workload s
Descriptor(s) == s.annotations.pvcs.items[1]

ApplyBackupName ==
    /\ calls' = <<Applied("BackupName", BackupNameText(Descriptor(sts)))>>
    /\ UNCHANGED <<sts, pvcs, jobs, events, faults, orig, quiesced, completed>>

\* the resize goes on: the backup is recorded, then the restore
AdvancePhase ==
    /\ ~Descriptor(sts).Restored
    /\ sts' = IF Descriptor(sts).BackedUp
              THEN [sts EXCEPT !.annotations.pvcs.items[1].Restored = TRUE]
              ELSE [sts EXCEPT !.annotations.pvcs.items[1].BackedUp = TRUE]
    /\ Quiet
    /\ UNCHANGED <<pvcs, jobs, faults, orig, quiesced, completed>>

NameNext ==
    \/ ApplyBackupName
    \/ AdvancePhase

NameSpec == NameInit /\ [][NameNext]_vars

\* [a-z0-9]([-a-z0-9]*[a-z0-9])?
IsAlnum(c) == IsDigit(c) \/ IsIn(Lower, c)

IsLabel(n) ==
    /\ n # <<>>
    /\ \A i \in 1..Len(n) : IsAlnum(n[i]) \/ n[i] = "-"
    /\ IsAlnum(n[1])
    /\ IsAlnum(n[Len(n)])

\* C30: the backup name of a descriptor is the one of the descriptor with
\* the same volume name and request in the backup phase, whatever its
\* target size and phase; it is at most 63 characters long and matches
\* [a-z0-9]([-a-z0-9]*[a-z0-9])?.
C30_BackupNameStableAndValid ==
    \A i \in CallIdx :
        calls[i].op = "BackupName" =>
            LET pi == Descriptor(calls[i].sts)
                n == calls[i].name IN
            /\ n = BackupNameText([pi EXCEPT !.TargetSize = <<>>,
                                             !.BackedUp = FALSE,
                                             !.Restored = FALSE])
            /\ Len(n) <= maxNameLength
            /\ IsLabel(n)

\* ============================================== in-place mode (C31-C33)
\* Update of a volume: its requested storage is replaced; a deletion
\* that is under way is not undone by an update.
UpdatePVC(m, name, obj) ==
    ApiMutate(m, Call("updatePVC", name, m), [m EXCEPT !.pvcs[name].size = obj.size])

\* faulty variant: stops after the first volume
resizePVCsInplaceFirstOnly(m, PVCs, i) ==
    IF i > Len(PVCs) \/ i > 1 THEN Ok(m)
    ELSE UpdatePVC(m, PVCs[i].SourceName, GetResizedSource(PVCs[i]))

\* resizePVCsInplace: the loop from index i; lastErr is the returned error
RECURSIVE resizePVCsInplace(_, _, _)
resizePVCsInplace(m, PVCs, i) ==
    IF i > Len(PVCs) THEN Ok(m)
    ELSE With(UpdatePVC(m, PVCs[i].SourceName, GetResizedSource(PVCs[i])), LAMBDA m1 :
         IF m1.lastErr \/ ~m1.alive THEN m1
         ELSE resizePVCsInplace(m1, PVCs, i + 1))

\* the label that gates the in-place mode (LabelName)
Gated(s) == s.labels.inplace = "true"

\* faulty variant: does not look at the label
InplaceReconcileBodyNoGate(m) ==
    With(NewInfo(m.sts), LAMBDA si :
    IF si.err.kind # "nil" THEN [m EXCEPT !.lastErr = TRUE]
    ELSE With(fetchResizablePVCs(m), LAMBDA pis :
         IF Len(pis) = 0 THEN Ok(m)
         ELSE resizePVCsInplace(m, pis, 1)))

\* faulty variant: writes the pending list to the workload first
InplaceReconcileBodySaving(m) ==
    IF ~Gated(m.sts) THEN Ok(m)
    ELSE With(NewInfo(m.sts), LAMBDA si :
         IF si.err.kind # "nil" THEN [m EXCEPT !.lastErr = TRUE]
         ELSE With(fetchResizablePVCs(m), LAMBDA pis :
              IF Len(pis) = 0 THEN Ok(m)
              ELSE With(Update(m, Sts([si EXCEPT !.Pvcs = pis]).sts), LAMBDA m1 :
                   resizePVCsInplace(m1, pis, 1))))

\* InplaceReconciler.Reconcile: label gate; descriptor; list of the
\* volumes that are too small; one update per listed volume
InplaceReconcileBody(m) ==
    IF ~Gated(m.sts) THEN Ok(m)
    ELSE With(NewInfo(m.sts), LAMBDA si :
         IF si.err.kind # "nil" THEN [m EXCEPT !.lastErr = TRUE]
         ELSE With(fetchResizablePVCs(m), LAMBDA pis :
              IF Len(pis) = 0 THEN Ok(m)
              ELSE resizePVCsInplace(m, pis, 1)))

GateValues == {"", "false", "true"}

\* workloads as the in-place engine finds them: with or without the
\* gate, with no, a readable or an unreadable pvcs annotation
InplaceInit ==
    /\ \E n \in 0..MaxReplicas, synced \in BOOLEAN, g \in GateValues, a \in PlanInputs :
          sts = [InitSts(n, synced, FALSE) EXCEPT
                    !.labels = [failed |-> "", inplace |-> g],
                    !.annotations.pvcs = a]
    /\ orig = sts.replicas
    /\ quiesced = FALSE
    /\ completed = {}
    /\ \E big \in {{}, {NVols}, Vols}, foreign \in {{}, {1}} :
          pvcs = [n \in PVCNames |->
                    IF \E v \in Vols : n = SrcName(v) /\ v \in big THEN PVC(TemplateSize)
                    ELSE IF \E v \in Vols : n = SrcName(v) THEN PVC(SmallSize)
                    ELSE IF \E v \in foreign : n = BkName(v) THEN PVC(TinySize)
                    ELSE NoPVC]
    /\ jobs = [n \in JobNames |-> "absent"]
    /\ calls = <<>>
    /\ events = {}
    /\ faults = 0

\* One in-place reconcile, without fault (k = -1) or with the fault
\* striking its (k+1)-th update.
InplaceReconcileWith(k, kind) ==
    \E w \in {World(k, kind)} : \E m \in {InplaceReconcileBody(w)} :
    /\ k >= 0 => (faults < MaxFaults /\ m.faulted)
    /\ sts' = m.sts
    /\ pvcs' = m.pvcs
    /\ jobs' = m.jobs
    /\ calls' = m.calls
    /\ events' = m.events
    /\ faults' = IF m.faulted THEN faults + 1 ELSE faults
    /\ UNCHANGED <<orig, quiesced, completed>>

InplaceReconcile == InplaceReconcileWith(-1, "error")

InplaceReconcileFault ==
    \E k \in 0..(NVols - 1), kind \in FaultKinds : InplaceReconcileWith(k, kind)

\* the operator sets, changes or removes the gate label; calls and events
\* stay those of the most recent reconcile
UserSetGate ==
    \E g \in GateValues :
        /\ g # sts.labels.inplace
        /\ sts' = [sts EXCEPT !.labels.inplace = g]
        /\ UNCHANGED <<pvcs, jobs, calls, events, faults, orig, quiesced, completed>>

\* the in-place engine reads nothing of the workload's status, so the
\* workload's own controller is left out
InplaceNext ==
    \/ InplaceReconcile
    \/ InplaceReconcileFault
    \/ UserSetGate

InplaceSpec == InplaceInit /\ [][InplaceNext]_vars

\* an in-place reconcile has taken this step
InplaceStep == InplaceReconcile \/ InplaceReconcileFault

\* C31: in in-place mode a workload that does not bear the gate label
\* with value true is not acted on: a reconcile of it issues no call and
\* leaves every volume, the workload and the copy-jobs as they are.
C31_UngatedUntouched ==
    [][(~Gated(sts) /\ InplaceStep) =>
          /\ calls' = <<>>
          /\ pvcs' = pvcs
          /\ sts' = sts
          /\ jobs' = jobs]_vars

\* an update of the second volume has failed, the gate has been taken
\* away and a reconcile of the ungated workload has issued no call: the
\* second volume is still too small
C31_Witness ==
    /\ ~Gated(sts)
    /\ faults > 0
    /\ pvcs[SrcName(1)] = PVC(TemplateSize)
    /\ pvcs[SrcName(NVols)] = PVC(SmallSize)
    /\ calls = <<>>

\* C32: in in-place mode a reconcile never changes the workload object
\* and never creates or deletes a volume or a copy-job; every call it
\* issues is an update of a volume that was smaller than the template,
\* and that update changes nothing but the requested storage.
C32_OnlyVolumeUpdates ==
    [][InplaceStep =>
          /\ sts' = sts
          /\ jobs' = jobs
          /\ events' = {}
          /\ \A n \in PVCNames : /\ Exists(pvcs'[n]) = Exists(pvcs[n])
                                 /\ pvcs'[n].terminating = pvcs[n].terminating
          /\ \A i \in 1..Len(calls') :
                /\ calls'[i].op = "updatePVC"
                /\ \E v \in Vols : /\ calls'[i].name = SrcName(v)
                                   /\ isGreaterStorageRequest(pvcs[SrcName(v)], TemplateSize)
                                   /\ pvcs'[SrcName(v)].size = TemplateSize
          /\ \A n \in PVCNames :
                pvcs'[n] # pvcs[n] => \E i \in 1..Len(calls') : calls'[i].name = n]_vars

\* an in-place reconcile has updated both volumes of a running workload
C32_Witness ==
    /\ Len(calls) = NVols
    /\ \A i \in 1..Len(calls) : calls[i].op = "updatePVC"
    /\ sts.replicas > 0
    /\ sts.annotations.pvcs = NoPlan
    /\ \A v \in Vols : pvcs[SrcName(v)] = PVC(TemplateSize)

CreatesOriginal(c, i, v) ==
    /\ c[i].op = "create"
    /\ c[i].name = SrcName(v)

\* C34 as claimed: the restore copy-job of a volume is never created in
\* the pass that created the volume's original.
C34_RestoreJobInLaterPass ==
    [][\E c \in {calls'} : \A v \in Vols :
          ~(/\ \E i \in 1..Len(c) : CreatesOriginal(c, i, v)
            /\ \E j \in 1..Len(c) : c[j].op = "createJob" /\ c[j].name = RestoreJob(v))]_vars

\* C34 amended: in the restore step, when the original volume is absent
\* the engine creates it at the target size and, in the same pass and as
\* its very next call, creates the restore copy-job; the volume stays on
\* the pending list, not restored, for that reconcile.
C34_RestoreJobInSamePass ==
    [][ReconciledWithCalls =>
          \E c \in {calls'}, q \in {Pending'} : \A v \in Vols : \A i \in 1..Len(c) :
             CreatesOriginal(c, i, v) =>
                /\ ~Exists(c[i].before[SrcName(v)])
                /\ i < Len(c)
                /\ c[i + 1].op = "createJob"
                /\ c[i + 1].name = RestoreJob(v)
                /\ c[i + 1].before[SrcName(v)] = PVC(TemplateSize)
                /\ \E k \in 1..Len(q) : /\ q[k].SourceName = SrcName(v)
                                        /\ q[k].BackedUp
                                        /\ ~q[k].Restored]_vars

\* a reconcile has created the original at the template's size and the
\* restore copy-job right after it
C34_Witness ==
    \E v \in Vols : \E i \in 1..(Len(calls) - 1) :
        /\ CreatesOriginal(calls, i, v)
        /\ calls[i + 1].op = "createJob"
        /\ calls[i + 1].name = RestoreJob(v)
        /\ pvcs[SrcName(v)] = PVC(TemplateSize)
        /\ jobs[RestoreJob(v)] = "running"

\* the reconcile just taken deleted the original of volume v as its i-th call
DeletesSource(c, i, v) ==
    /\ c[i].op = "delete"
    /\ c[i].name = SrcName(v)

\* C35: in the restore step an original that is present and requests less
\* than the target is deleted and the step reports "not done yet": the
\* replacement and the restore copy-job are not created in that pass and
\* the volume stays pending.  This holds as well for every later pass
\* that still sees the old volume because it is still being removed; such
\* a pass leaves the workload unfailed and records no warning.
C35_DeleteThenWait ==
    [][ReconciledWithCalls =>
          \E c \in {calls'}, q \in {Pending'} : \A v \in Vols : \A i \in 1..Len(c) :
             DeletesSource(c, i, v) =>
                /\ Exists(c[i].before[SrcName(v)])
                /\ c[i].before[SrcName(v)].size < TemplateSize
                /\ \A j \in 1..Len(c) :
                      /\ ~(c[j].op = "create" /\ c[j].name = SrcName(v))
                      /\ ~(c[j].op = "createJob" /\ c[j].name = RestoreJob(v))
                      /\ (DeletesSource(c, j, v) => j = i)
                /\ pvcs'[SrcName(v)].terminating
                /\ Has(q, v)
                /\ NoJobFailed =>
                      /\ sts'.labels.failed = ""
                      /\ \A e \in events' : e.type # "Warning"]_vars

\* a later reconcile has seen the old volume still being removed and has
\* deleted it once more; the workload is not failed and the volume pending
C35_Witness ==
    \E v \in Vols : \E i \in 1..Len(calls) :
        /\ DeletesSource(calls, i, v)
        /\ calls[i].before[SrcName(v)].terminating
        /\ calls[i].before[SrcName(v)].size = SmallSize
        /\ sts.labels.failed = ""
        /\ InPending(v)
        /\ \A e \in events : e.type # "Warning"

\* C36: the persisted state of a volume only moves forward: a persisted
\* backedUp or restored flag never goes from true back to false, restored
\* is never persisted true while backedUp is false, and a volume that has
\* left the list after its restore completed does not come back on it.
C36_FlagsOnlyForward ==
    [][\E p \in {sts.annotations.pvcs.items}, q \in {sts'.annotations.pvcs.items} :
          /\ \A i \in 1..Len(p) : \A j \in 1..Len(q) :
                p[i].SourceName = q[j].SourceName =>
                   /\ p[i].BackedUp => q[j].BackedUp
                   /\ p[i].Restored => q[j].Restored
          /\ \A j \in 1..Len(q) : q[j].Restored => q[j].BackedUp
          /\ \A v \in Vols :
                (~Has(p, v) /\ Has(q, v)) => RestoreJob(v) \notin completed]_vars

\* backedUp has been persisted for a volume and a later reconcile, which
\* deleted the original, has written the descriptor again
C36_Witness ==
    \E v \in Vols :
        /\ BackedUpListed(v)
        /\ calls # <<>>
        /\ calls[Len(calls)].op = "update"
        /\ \E a \in {calls[Len(calls)].sts.annotations.pvcs} :
              /\ a.present
              /\ \E k \in 1..Len(a.items) : /\ a.items[k].SourceName = SrcName(v)
                                            /\ a.items[k].BackedUp

\* C37: whenever a phase of a volume is recorded as succeeded, the
\* copy-job of that phase no longer exists: a descriptor persisted with
\* backedUp has no backup copy-job, and a volume taken off the list after
\* its restore copy-job completed has no restore copy-job.
C37_SucceededJobIsGone ==
    \A v \in Vols :
        /\ BackedUpListed(v) => jobs[BackupJob(v)] = "absent"
        /\ (/\ sts.annotations.pvcs.present
            /\ ~InPending(v)
            /\ RestoreJob(v) \in completed) => jobs[RestoreJob(v)] = "absent"

\* backedUp=true of volume v is persisted in the workload s
PersistedBackedUp(s, v) ==
    \E k \in 1..Len(s.annotations.pvcs.items) :
        /\ s.annotations.pvcs.items[k].SourceName = SrcName(v)
        /\ s.annotations.pvcs.items[k].BackedUp

\* C38, first half: the engine deletes an original only after
\* backedUp=true of that volume has been persisted in the pvcs annotation.
C38_DeleteAfterBackedUpPersisted ==
    [][\E c \in {calls'} : \A v \in Vols : \A i \in 1..Len(c) :
          DeletesSource(c, i, v) => PersistedBackedUp(c[i].sts, v)]_vars

\* C38: an interruption right after the delete of an original never
\* leads a later reconcile to start a new backup copy-job whose source is
\* the deleted or the freshly recreated original: when a backup copy-job
\* is created, the original exists, is not being removed and still has
\* the size it is to grow from.
C38_NoBackupOfDeletedOriginal ==
    [][\E c \in {calls'} : \A v \in Vols : \A i \in 1..Len(c) :
          (c[i].op = "createJob" /\ c[i].name = BackupJob(v)) =>
                /\ Exists(c[i].before[SrcName(v)])
                /\ ~c[i].before[SrcName(v)].terminating
                /\ c[i].before[SrcName(v)].size < TemplateSize]_vars

\* C39: when label failed has been removed from a workload that was
\* aborted and scaled back up (scalup=true, pending list not empty), a
\* reconcile runs no backup or restore step, that is, issues no call on a
\* volume or a copy-job, while the workload's desired or observed
\* replicas are above 0.
C39_NoVolumeWorkWhileScaledUp ==
    [][(/\ isScalingUp(sts)
        /\ sts.labels.failed = ""
        /\ Len(sts.annotations.pvcs.items) > 0
        /\ sts.replicas > 0 \/ sts.statusReplicas > 0) =>
          \A i \in 1..Len(calls') : ~PerVolumeCall(calls'[i])]_vars

\* a reconcile of the present state returns an error
ReconcileErrs ==
    \E m \in {World(-1, "crash")} : \E si \in {fetchStatefulSet(m)} :
        IF si.err.kind # "nil" THEN TRUE
        ELSE IF ~Resizing(si) \/ Failed(si) THEN FALSE
        ELSE resizeStatefulSet(m, si).err.kind # "nil"

\* the resize of a workload that was stopped from the start has ended
ResizedAtZero ==
    /\ \A v \in Vols : pvcs[SrcName(v)] = PVC(TemplateSize)
    /\ sts.replicas = 0
    /\ sts.labels.failed = ""
    /\ ~ReconcileErrs

====
